---- MODULE Spec2Model ----
(***************************************************************************)
(* pywis-topics: the WIS2 topic hierarchy engine (pywis_topics/topics.py)  *)
(* and the centre-id validator (pywis_topics/centre_id.py).                *)
(*                                                                         *)
(* A Python str is modelled as a sequence of one-character strings, so     *)
(* that split, join, replace and the regular-expression search of the      *)
(* source are computed character by character.  None is the one-element    *)
(* sequence <<"None">>, which is no string of characters.                  *)
(*                                                                         *)
(* The characters that occur in the model are lowercase ASCII letters,     *)
(* digits, '-', '_', '/', '+', '#', '.', '$', uppercase ASCII letters      *)
(* and the non-ASCII lowercase letter 'é'.  re_match interprets exactly    *)
(* the regular expressions that _validate_esd_subtopic can build from      *)
(* such characters.                                                        *)
(***************************************************************************)
EXTENDS Naturals, Sequences, FiniteSets

VARIABLES
  topics,        \* self.topics of the engine: seven lists of tokens
  loaded,        \* the rows of the seven tables at the default location,
                 \* which the engine was constructed from
  op,            \* the call on record, "idle" between calls
  arg_topic,     \* its topic_hierarchy (or centre_id) argument
  arg_strict,    \* its strict argument
  arg_tables,    \* the tables argument of CentreId
  outcome,       \* what it returned or raised
  returned,      \* the list that list_children returned
  alias,         \* returned is the very list object self.topics[0]
  prev_outcome   \* the outcome of the strict call that a caller repeats
                 \* in lenient mode

vars == <<topics, loaded, op, arg_topic, arg_strict, arg_tables, outcome,
          returned, alias, prev_outcome>>

-----------------------------------------------------------------------------
(* Characters and the str predicates of Python                             *)

LowerAscii ==
  {"a","b","c","d","e","f","g","h","i","j","k","l","m",
   "n","o","p","q","r","s","t","u","v","w","x","y","z"}

UpperAscii ==
  {"A","B","C","D","E","F","G","H","I","J","K","L","M",
   "N","O","P","Q","R","S","T","U","V","W","X","Y","Z"}

Digits == {"0","1","2","3","4","5","6","7","8","9"}

LowerNonAscii == {"é"}

\* re's \w on str patterns: Unicode letters, digits and the underscore
IsWord(c) == c \in LowerAscii \cup UpperAscii \cup Digits \cup LowerNonAscii \cup {"_"}

\* str.islower(): at least one cased character and no uppercase one
islower(s) ==
  /\ \E i \in 1..Len(s) : s[i] \in LowerAscii \cup LowerNonAscii
  /\ \A i \in 1..Len(s) : s[i] \notin UpperAscii

\* str.isascii()
isascii(s) == \A i \in 1..Len(s) : s[i] \notin LowerNonAscii

LowerSeq ==
  <<"a","b","c","d","e","f","g","h","i","j","k","l","m",
    "n","o","p","q","r","s","t","u","v","w","x","y","z">>

UpperSeq ==
  <<"A","B","C","D","E","F","G","H","I","J","K","L","M",
    "N","O","P","Q","R","S","T","U","V","W","X","Y","Z">>

\* str.upper() on strings of ASCII characters
str_upper(s) ==
  [i \in 1..Len(s) |->
     IF s[i] \in LowerAscii
     THEN UpperSeq[CHOOSE k \in 1..Len(LowerSeq) : LowerSeq[k] = s[i]]
     ELSE s[i]]

\* c in s, for a single character c
Contains(s, c) == \E i \in 1..Len(s) : s[i] = c

\* str.find(c) for a character that occurs in s, as a 0-based index
find(s, c) ==
  (CHOOSE i \in 1..Len(s) : s[i] = c /\ \A j \in 1..(i-1) : s[j] # c) - 1

\* str.rfind(c) for a character that occurs in s, as a 0-based index
rfind(s, c) ==
  (CHOOSE i \in 1..Len(s) : s[i] = c /\ \A j \in (i+1)..Len(s) : s[j] # c) - 1

\* str.split(sep) for a one-character separator
RECURSIVE split(_, _)
split(s, sep) ==
  IF ~Contains(s, sep) THEN <<s>>
  ELSE LET p == find(s, sep) + 1
       IN  <<SubSeq(s, 1, p - 1)>> \o split(SubSeq(s, p + 1, Len(s)), sep)

\* sep.join(parts)
RECURSIVE join(_, _)
join(parts, sep) ==
  IF Len(parts) = 0 THEN <<>>
  ELSE IF Len(parts) = 1 THEN parts[1]
  ELSE parts[1] \o <<sep>> \o join(Tail(parts), sep)

\* str.replace(old, new): leftmost, non-overlapping occurrences of old
RECURSIVE replace(_, _, _)
replace(s, old, new) ==
  IF Len(s) < Len(old) THEN s
  ELSE IF SubSeq(s, 1, Len(old)) = old
       THEN new \o replace(SubSeq(s, Len(old) + 1, Len(s)), old, new)
       ELSE <<s[1]>> \o replace(Tail(s), old, new)

\* str.endswith(c) for a single character c
endswith(s, c) == Len(s) > 0 /\ s[Len(s)] = c

\* x in list
InList(x, list) == \E i \in 1..Len(list) : list[i] = x

\* list[a:] in Python, a 0-based
SliceFrom(list, a) == SubSeq(list, a + 1, Len(list))

\* list[:b] in Python
SliceTo(list, b) == SubSeq(list, 1, IF Len(list) < b THEN Len(list) ELSE b)

-----------------------------------------------------------------------------
(* The regular expressions of _validate_esd_subtopic                       *)

\* r'(\w+|\+)', the text that replaces '+'
PlusGroup == <<"(", "\\", "w", "+", "|", "\\", "+", ")">>

\* r'.*', the text that replaces '#'
DotStar == <<".", "*">>

\* Does rx from its position i on match s from position j on?  '(' can only
\* open PlusGroup, '*' can only follow '.', every other character of the
\* model's alphabet stands for itself.
RECURSIVE re_match(_, _, _, _)
re_match(rx, i, s, j) ==
  IF i > Len(rx) THEN TRUE
  ELSE IF rx[i] = "^" THEN j = 1 /\ re_match(rx, i + 1, s, j)
  ELSE IF rx[i] = "$" THEN j = Len(s) + 1 /\ re_match(rx, i + 1, s, j)
  ELSE IF rx[i] = "("
       THEN \/ \E k \in 1..(Len(s) + 1 - j) :
                 /\ \A m \in j..(j + k - 1) : IsWord(s[m])
                 /\ re_match(rx, i + Len(PlusGroup), s, j + k)
            \/ /\ j <= Len(s)
               /\ s[j] = "+"
               /\ re_match(rx, i + Len(PlusGroup), s, j + 1)
  ELSE IF rx[i] = "." /\ i < Len(rx) /\ rx[i + 1] = "*"
       THEN \E k \in 0..(Len(s) + 1 - j) : re_match(rx, i + 2, s, j + k)
  ELSE IF rx[i] = "."
       THEN j <= Len(s) /\ re_match(rx, i + 1, s, j + 1)
  ELSE j <= Len(s) /\ s[j] = rx[i] /\ re_match(rx, i + 1, s, j + 1)

\* re.search(rx, s) is not None
re_search(rx, s) == \E st \in 1..(Len(s) + 1) : re_match(rx, 1, s, st)

-----------------------------------------------------------------------------
(* pywis_topics/topics.py                                                  *)

None == <<"None">>

\* validate_baseline with the position of the last '#' taken for the first
validate_baseline_rfind(topic_hierarchy) ==
  IF Contains(topic_hierarchy, ".") THEN FALSE
  ELSE IF ~islower(topic_hierarchy) THEN FALSE
  ELSE IF ~isascii(topic_hierarchy) THEN FALSE
  ELSE IF Contains(topic_hierarchy, "#")
          /\ rfind(topic_hierarchy, "#") # Len(topic_hierarchy) - 1 THEN FALSE
  ELSE TRUE

\* validate_baseline(topic_hierarchy)
validate_baseline(topic_hierarchy) ==
  IF Contains(topic_hierarchy, ".") THEN FALSE
  ELSE IF ~islower(topic_hierarchy) THEN FALSE
  ELSE IF ~isascii(topic_hierarchy) THEN FALSE
  ELSE IF Contains(topic_hierarchy, "#")
          /\ find(topic_hierarchy, "#") # Len(topic_hierarchy) - 1 THEN FALSE
  ELSE TRUE

\* the loop body without the lenient skip of the centre-id position
core_token_ok_no_skip(tp, count, value, strict) ==
  IF value = <<>> THEN TRUE
  ELSE IF value \in {<<"+">>, <<"#">>} THEN ~strict
  ELSE InList(value, tp[count + 1])

\* TopicHierarchy._validate_core: the verdict of the loop on the token
\* value at the 0-based position count
core_token_ok(tp, count, value, strict) ==
  IF value = <<>> THEN TRUE
  ELSE IF ~strict /\ count = 3 THEN TRUE
  ELSE IF value \in {<<"+">>, <<"#">>} THEN ~strict
  ELSE InList(value, tp[count + 1])

\* TopicHierarchy._validate_core(core_tokens, strict)
validate_core(tp, core_tokens, strict) ==
  \A n \in 1..Len(core_tokens) : core_token_ok(tp, n - 1, core_tokens[n], strict)

experimental == <<"e","x","p","e","r","i","m","e","n","t","a","l">>

\* the regular expression that the lenient branch builds from the subtopic
esd_regex(esd_subtopic) ==
  LET r1 == IF Contains(esd_subtopic, "+")
            THEN replace(esd_subtopic, <<"+">>, PlusGroup) ELSE esd_subtopic
      r2 == IF Contains(r1, "#") THEN replace(r1, <<"#">>, DotStar) ELSE r1
  IN  <<"^">> \o r2 \o <<"$">>

\* the last_token_match flag computed for a level-6 entry esd that matched
last_token_match(regex, esd) ==
  IF endswith(esd, "#") THEN FALSE
  ELSE LET esd_tokens == split(esd, "/")
           esd_last_token == esd_tokens[Len(esd_tokens)]
           regex_tokens == split(regex, "/")
           regex_last_token ==
             replace(replace(replace(regex_tokens[Len(regex_tokens)],
                                     <<"$">>, <<>>), DotStar, <<>>), <<"^">>, <<>>)
       IN  regex_last_token = <<>> \/ esd_last_token = regex_last_token

\* _validate_esd_subtopic whose lenient branch has no experimental bypass
validate_esd_subtopic_strict_bypass_only(tp, esd_subtopic, strict) ==
  LET tokens == split(esd_subtopic, "/") IN
  IF strict
  THEN IF Len(tokens) < 2 THEN "IndexError"
       ELSE IF InList(esd_subtopic, tp[7]) \/ tokens[2] = experimental
            THEN "True" ELSE "False"
  ELSE LET regex == esd_regex(esd_subtopic)
       IN  IF \E n \in 1..Len(tp[7]) :
                 /\ re_search(regex, tp[7][n])
                 /\ last_token_match(regex, tp[7][n])
           THEN "True" ELSE "False"

\* _validate_esd_subtopic whose strict branch tests table membership only
validate_esd_subtopic_no_bypass(tp, esd_subtopic, strict) ==
  LET tokens == split(esd_subtopic, "/") IN
  IF strict
  THEN IF Len(tokens) < 2 THEN "IndexError"
       ELSE IF InList(esd_subtopic, tp[7]) THEN "True" ELSE "False"
  ELSE IF Len(tokens) > 1 /\ tokens[2] = experimental THEN "True"
  ELSE LET regex == esd_regex(esd_subtopic)
       IN  IF \E n \in 1..Len(tp[7]) :
                 /\ re_search(regex, tp[7][n])
                 /\ last_token_match(regex, tp[7][n])
           THEN "True" ELSE "False"

\* TopicHierarchy._validate_esd_subtopic(esd_subtopic, strict): "True",
\* "False", or "IndexError" when split('/')[1] does not exist
validate_esd_subtopic(tp, esd_subtopic, strict) ==
  LET tokens == split(esd_subtopic, "/") IN
  IF strict
  THEN IF Len(tokens) < 2 THEN "IndexError"
       ELSE IF InList(esd_subtopic, tp[7]) \/ tokens[2] = experimental
            THEN "True" ELSE "False"
  ELSE IF Len(tokens) > 1 /\ tokens[2] = experimental THEN "True"
  ELSE LET regex == esd_regex(esd_subtopic)
       IN  IF \E n \in 1..Len(tp[7]) :
                 /\ re_search(regex, tp[7][n])
                 /\ last_token_match(regex, tp[7][n])
           THEN "True" ELSE "False"

\* TopicHierarchy.validate(topic_hierarchy, strict): "True", "False",
\* "ValueError" or "IndexError".  The verdict of validate_baseline is
\* computed at line 146 and dropped.
validate(tp, topic_hierarchy, strict) ==
  IF topic_hierarchy \in {<<"/">>, None} THEN "ValueError"
  ELSE LET baseline == validate_baseline(topic_hierarchy)
           all_tokens == split(topic_hierarchy, "/")
           core_tokens == SliceTo(all_tokens, 6)
           esd_subtopic == join(SliceFrom(all_tokens, 6), "/")
       IN  IF ~validate_core(tp, core_tokens, strict) THEN "False"
           ELSE IF esd_subtopic # <<>>
                THEN validate_esd_subtopic(tp, esd_subtopic, strict)
                ELSE "True"

\* str.split(sep, maxsplit)
RECURSIVE split_max(_, _, _)
split_max(s, sep, maxsplit) ==
  IF maxsplit = 0 \/ ~Contains(s, sep) THEN <<s>>
  ELSE LET p == find(s, sep) + 1
       IN  <<SubSeq(s, 1, p - 1)>>
             \o split_max(SubSeq(s, p + 1, Len(s)), sep, maxsplit - 1)

\* str.startswith(prefix)
startswith(s, prefix) ==
  Len(prefix) <= Len(s) /\ SubSeq(s, 1, Len(prefix)) = prefix

\* set(list)
ToSet(list) == {list[n] : n \in 1..Len(list)}

\* list(set): the elements in any order
Orderings(S) ==
  {f \in [1..Cardinality(S) -> S] : \A a, b \in 1..Cardinality(S) : f[a] = f[b] => a = b}

\* list_children that reads the table of the topic's own last level
subtopics_same_level(tp, topic_hierarchy) ==
  LET th_tokens == split_max(topic_hierarchy, "/", 6)
      num_th_tokens == Len(th_tokens)
  IN  IF num_th_tokens < 6 THEN ToSet(tp[num_th_tokens])
      ELSE IF num_th_tokens = 6 THEN {split(t, "/")[1] : t \in ToSet(tp[6])}
      ELSE LET domain_topic == th_tokens[num_th_tokens]
               masks == {replace(subtopic, domain_topic \o <<"/">>, <<>>) :
                           subtopic \in {e \in ToSet(tp[7]) :
                                           startswith(e, domain_topic) /\ e # domain_topic}}
           IN  {split(mask, "/")[1] : mask \in masks \ {<<>>}}

\* TopicHierarchy.list_children, lines 96-116: the set subtopics computed
\* for a topic that passed validate
subtopics(tp, topic_hierarchy) ==
  LET th_tokens == split_max(topic_hierarchy, "/", 6)
      num_th_tokens == Len(th_tokens)
  IN  IF num_th_tokens < 6 THEN ToSet(tp[num_th_tokens + 1])
      ELSE IF num_th_tokens = 6 THEN {split(t, "/")[1] : t \in ToSet(tp[7])}
      ELSE LET domain_topic == th_tokens[num_th_tokens]
               masks == {replace(subtopic, domain_topic \o <<"/">>, <<>>) :
                           subtopic \in {e \in ToSet(tp[7]) :
                                           startswith(e, domain_topic) /\ e # domain_topic}}
           IN  {split(mask, "/")[1] : mask \in masks \ {<<>>}}

\* TopicHierarchy.list_children(topic_hierarchy): "returned", or the
\* exception it raises or lets through from validate
list_children(tp, topic_hierarchy) ==
  IF topic_hierarchy = <<"/">> THEN "returned"
  ELSE LET valid == validate(tp, topic_hierarchy, TRUE)
       IN  IF valid \in {"ValueError", "IndexError"} THEN valid
           ELSE IF valid = "False" THEN "ValueError"
           ELSE IF subtopics(tp, topic_hierarchy) = {} THEN "ValueError"
           ELSE "returned"

-----------------------------------------------------------------------------
(* pywis_topics/centre_id.py                                               *)

\* CentreId.__init__(centre_id, tables): "ValueError" when split('-', 1)
\* does not give two parts
centre_id_init(centre_id) ==
  IF Len(split_max(centre_id, "-", 1)) # 2 THEN "ValueError" ELSE "constructed"

\* self.tld
centre_id_tld(centre_id) == split_max(centre_id, "-", 1)[1]

\* CentreId.validate that compares the TLD with the header row too
centre_id_validate_with_header(centre_id, tld_rows, default_levels) ==
  IF ~validate_baseline(centre_id) THEN "False"
  ELSE IF ~InList(str_upper(centre_id_tld(centre_id)), tld_rows) THEN "False"
  ELSE IF InList(centre_id, default_levels[4]) THEN "False"
  ELSE "True"

\* CentreId.validate(): tld_rows are the rows of tlds-alpha-by-domain.txt in
\* self.tables_dir, default_levels the tables at the default location, which
\* TopicHierarchy() at line 89 loads whatever self.tables_dir is
centre_id_validate(centre_id, tld_rows, default_levels) ==
  IF ~validate_baseline(centre_id) THEN "False"
  ELSE IF ~InList(str_upper(centre_id_tld(centre_id)), Tail(tld_rows)) THEN "False"
  ELSE IF InList(centre_id, default_levels[4]) THEN "False"
  ELSE "True"

-----------------------------------------------------------------------------
(* Reference tables and the inputs of the calls                            *)

\* Tokens of the tables and of the topics.  The long names of the real
\* tables are abbreviated: weather is 'wx', surface-based-observations is
\* 's-o' (it keeps its hyphens), surface-based-observations1 is 's-o1',
\* synop is 'sy', ca-eccc-msc is 'ca-msc', io-wis2dev-11-test is 'io-t'.
cache == <<"c","a","c","h","e">>
origin == <<"o","r","i","g","i","n">>
version_a == <<"a">>
wis2 == <<"w","i","s","2">>
ca_msc == <<"c","a","-","m","s","c">>
io_test == <<"i","o","-","t">>
data == <<"d","a","t","a">>
core == <<"c","o","r","e">>
weather == <<"w","x">>
sbo == <<"s","-","o">>
sbo1 == <<"s","-","o","1">>
sbo_dollar == <<"s","-","o","$">>
synop == <<"s","y">>
upper == <<"A">>

Path2(a, b) == a \o <<"/">> \o b
Path3(a, b, c) == a \o <<"/">> \o b \o <<"/">> \o c

\* four snapshots of the seven level tables; the last one has a channel
\* table of a header row only and level-6 entries that share a prefix
TableSnapshots ==
  { <<<<cache, origin>>, <<version_a>>, <<wis2>>, <<ca_msc>>, <<data>>, <<core>>,
      <<weather, Path2(weather, sbo), Path3(weather, sbo, synop)>>>>,
    <<<<cache, origin>>, <<version_a>>, <<wis2>>, <<ca_msc, io_test>>, <<data>>, <<core>>,
      <<Path2(weather, sbo)>>>>,
    <<<<cache>>, <<version_a>>, <<wis2>>, <<ca_msc>>, <<data>>, <<core>>,
      <<>>>>,
    <<<<>>, <<version_a>>, <<wis2>>, <<ca_msc>>, <<data>>, <<core>>,
      <<Path2(weather, sbo), Path2(weather, sbo1), Path3(weather, sbo, synop),
        Path2(synop, synop),
        Path2(synop, synop) \o <<"/">> \o Path3(synop, synop, weather)>>>> }

MaxCoreEdits == 1
MaxEsdSegs == 3
MaxBaselineLen == 3

CoreBase == <<cache, version_a, wis2, ca_msc, data, core>>

\* what a core position is replaced by: empty, wildcards, a token of
\* another level, a centre-id that only one snapshot allocates, an
\* uppercase token
CoreAlt == {<<>>, <<"+">>, <<"#">>, data, io_test, upper}

RECURSIVE EditedCores(_)
EditedCores(n) ==
  IF n = 0 THEN {CoreBase}
  ELSE EditedCores(n - 1) \cup
       {[c EXCEPT ![i] = a] : c \in EditedCores(n - 1), i \in 1..6, a \in CoreAlt}

EsdCores ==
  {CoreBase, [CoreBase EXCEPT ![4] = io_test], [CoreBase EXCEPT ![4] = <<"+">>],
   [CoreBase EXCEPT ![1] = data]}

EsdSegs == {weather, sbo, sbo1, sbo_dollar, synop, experimental, <<"+">>, <<"#">>, <<>>}

EsdPaths == UNION {[1..n -> EsdSegs] : n \in 1..MaxEsdSegs}

BaselineChars == {"a", "A", "1", ".", "#", "é", "/"}

BaselineInputs == UNION {[1..n -> BaselineChars] : n \in 0..MaxBaselineLen}

TopicInputs ==
  {None, <<"/">>, <<>>}
  \cup {join(SubSeq(c, 1, k), "/") : c \in EditedCores(MaxCoreEdits), k \in 1..6}
  \cup {join(c \o e, "/") : c \in EsdCores, e \in EsdPaths}

\* the cores that list_children is given an ESD subtopic with
ListCores == {CoreBase, [CoreBase EXCEPT ![1] = <<>>]}

ListInputs ==
  {None, <<"/">>, <<>>}
  \cup {join(SubSeq(c, 1, k), "/") : c \in EditedCores(MaxCoreEdits), k \in 1..6}
  \cup {join(c \o e, "/") : c \in ListCores, e \in EsdPaths}

\* tlds-alpha-by-domain.txt at the default location: a comment line, then
\* one code per line
DefaultTldRows == <<<<"#">>, <<"C","A">>, <<"I","O">>>>

\* tables=None
NoTables == [given |-> FALSE, levels |-> <<>>, tlds |-> <<>>]

\* the content of the directories that a tables argument names: the seven
\* level tables and the TLD rows.  The first allocates ca-new and io-t, the
\* second allocates no centre-id and has a first row that reads like a code.
ca_new == <<"c","a","-","n","e","w">>

TablesDirs ==
  { [given |-> TRUE,
     levels |-> <<<<cache>>, <<version_a>>, <<wis2>>, <<ca_new, io_test>>, <<data>>,
                  <<core>>, <<weather>>>>,
     tlds |-> <<<<"#">>, <<"C","A">>, <<"I","O">>>>],
    [given |-> TRUE,
     levels |-> <<<<cache>>, <<version_a>>, <<wis2>>, <<>>, <<data>>, <<core>>, <<weather>>>>,
     tlds |-> <<<<"A","A">>, <<"C","A">>>>] }

CentreTlds == {<<"c","a">>, <<"i","o">>, <<"d","h">>, <<"a","a">>, <<"C","A">>, <<>>}

CentreNames == {<<"m","s","c">>, <<"t">>, <<"n","e","w">>, <<"a","-","b">>, <<"é">>}

CentreIdInputs ==
  {tld \o <<"-">> \o name : tld \in CentreTlds, name \in CentreNames}
  \cup {<<"b","a","d","c","e","n","t","r","e">>}

-----------------------------------------------------------------------------
(* The state machine: a loaded engine and its callers                      *)

Init ==
  /\ loaded \in TableSnapshots
  /\ topics = loaded
  /\ op = "idle"
  /\ arg_topic = None
  /\ arg_strict = TRUE
  /\ arg_tables = NoTables
  /\ outcome = "none"
  /\ returned = <<>>
  /\ alias = FALSE
  /\ prev_outcome = "none"

\* a caller runs validate(topic_hierarchy, strict)
CallValidate ==
  /\ op = "idle"
  /\ \E t \in TopicInputs, strict \in BOOLEAN :
       /\ op' = "validate"
       /\ arg_topic' = t
       /\ arg_strict' = strict
       /\ outcome' = validate(topics, t, strict)
  /\ UNCHANGED <<topics, loaded, arg_tables, returned, alias, prev_outcome>>

\* a caller runs validate_baseline(topic_hierarchy)
CallValidateBaseline ==
  /\ op = "idle"
  /\ \E t \in (TopicInputs \ {None}) \cup BaselineInputs :
       /\ op' = "validate_baseline"
       /\ arg_topic' = t
       /\ outcome' = IF validate_baseline(t) THEN "True" ELSE "False"
  /\ arg_strict' = TRUE
  /\ UNCHANGED <<topics, loaded, arg_tables, returned, alias, prev_outcome>>

\* a caller runs list_children(topic_hierarchy); for "/" it is handed
\* self.topics[0] itself, else a new list of the set subtopics
CallListChildren ==
  /\ op = "idle"
  /\ \E t \in ListInputs :
       /\ op' = "list_children"
       /\ arg_topic' = t
       /\ outcome' = list_children(topics, t)
       /\ alias' = (t = <<"/">>)
       /\ IF t = <<"/">> THEN returned' = topics[1]
          ELSE IF list_children(topics, t) = "returned"
               THEN returned' \in Orderings(subtopics(topics, t))
               ELSE returned' = <<>>
  /\ arg_strict' = TRUE
  /\ UNCHANGED <<topics, loaded, arg_tables, prev_outcome>>

\* a caller runs CentreId(centre_id, tables).validate()
CallCentreIdValidate ==
  /\ op = "idle"
  /\ \E c \in CentreIdInputs, tables \in {NoTables} \cup TablesDirs :
       /\ op' = "centre_id"
       /\ arg_topic' = c
       /\ arg_tables' = tables
       /\ outcome' = IF centre_id_init(c) = "ValueError" THEN "ValueError"
                     ELSE centre_id_validate(c,
                            IF tables.given THEN tables.tlds ELSE DefaultTldRows,
                            loaded)
  /\ arg_strict' = TRUE
  /\ UNCHANGED <<topics, loaded, returned, alias, prev_outcome>>

\* the caller removes the last element of the list that list_children
\* returned (returned.pop()); when that list is self.topics[0] itself
\* (line 89), the engine's level-0 table is the same object
CallerModifiesReturned ==
  /\ op = "list_children"
  /\ outcome = "returned"
  /\ Len(returned) > 0
  /\ returned' = SubSeq(returned, 1, Len(returned) - 1)
  /\ topics' = IF alias THEN [topics EXCEPT ![1] = returned'] ELSE topics
  /\ UNCHANGED <<loaded, op, arg_topic, arg_strict, arg_tables, outcome, alias,
                 prev_outcome>>

\* a caller whose strict validate call returned repeats it on the same
\* topic in lenient mode
RevalidateLenient ==
  /\ op = "validate"
  /\ arg_strict
  /\ outcome \in {"True", "False"}
  /\ op' = "revalidate"
  /\ arg_strict' = FALSE
  /\ prev_outcome' = outcome
  /\ outcome' = validate(topics, arg_topic, FALSE)
  /\ UNCHANGED <<topics, loaded, arg_topic, arg_tables, returned, alias>>

\* the call has returned or raised; the caller goes on
Return ==
  /\ op # "idle"
  /\ op' = "idle"
  /\ arg_topic' = None
  /\ arg_strict' = TRUE
  /\ arg_tables' = NoTables
  /\ outcome' = "none"
  /\ returned' = <<>>
  /\ alias' = FALSE
  /\ prev_outcome' = "none"
  /\ UNCHANGED <<topics, loaded>>

Next == CallValidate \/ CallValidateBaseline \/ Return

Spec == Init /\ [][Next]_vars

-----------------------------------------------------------------------------
(* Vocabulary of the properties: the call on record and what the           *)
(* specification says about it                                             *)

ValidateCalled == op = "validate" /\ arg_topic \notin {None, <<"/">>}

ArgTokens == split(arg_topic, "/")
ArgCore == SliceTo(ArgTokens, 6)
ArgEsdTokens == SliceFrom(ArgTokens, 6)
ArgEsd == join(ArgEsdTokens, "/")

LevelSet(i) == {topics[i + 1][n] : n \in 1..Len(topics[i + 1])}

Wildcards == {<<"+">>, <<"#">>}

\* the core-token rule of the specification, (a) to (d)
CoreRule(strict) ==
  \A n \in 1..Len(ArgCore) :
     \/ ArgCore[n] = <<>>
     \/ n - 1 = 3 /\ ~strict
     \/ ArgCore[n] \in Wildcards /\ ~strict
     \/ ArgCore[n] \in LevelSet(n - 1)

\* the second segment of the ESD subtopic is literally 'experimental'
SecondIsExperimental == Len(ArgEsdTokens) >= 2 /\ ArgEsdTokens[2] = experimental

\* a plain literal segment: non-empty, of lowercase letters, digits, '-', '_'
PlainSeg(seg) ==
  /\ Len(seg) > 0
  /\ \A i \in 1..Len(seg) : seg[i] \in LowerAscii \cup Digits \cup {"-", "_"}

\* what the baseline conventions forbid
BreaksBaseline(t) ==
  \/ Contains(t, ".")
  \/ \E i \in 1..Len(t) : t[i] \in UpperAscii
  \/ \E i \in 1..Len(t) : t[i] \in LowerNonAscii
  \/ \E i \in 1..(Len(t) - 1) : t[i] = "#"

-----------------------------------------------------------------------------
\* C1: validate raises an argument error exactly when the topic is None or
\* "/"; on every other topic, strict or lenient, it returns a boolean and
\* raises nothing.
C1_RaisesOnlyOnNoneOrRoot ==
  op = "validate" =>
     IF arg_topic \in {None, <<"/">>}
     THEN outcome = "ValueError"
     ELSE outcome \in {"True", "False"}

\* C2: baseline gating: a topic on which validate_baseline is false is
\* invalid for validate, in strict and in lenient mode.
C2_BaselineGating ==
  (ValidateCalled /\ BreaksBaseline(arg_topic) /\ ~validate_baseline(arg_topic))
  => outcome = "False"

\* C3: a topic with a '+' or '#' segment, at any position, is invalid in
\* strict mode.
C3_StrictRejectsWildcards ==
  (ValidateCalled /\ arg_strict
     /\ \E n \in 1..Len(ArgTokens) : ArgTokens[n] \in Wildcards)
  => outcome = "False"

\* C4: in strict mode, with valid core tokens and a non-empty ESD
\* subtopic E of any depth, validate returns true iff E is a member of the
\* level-6 set or the second segment of E is 'experimental'.
C4_StrictEsdMembership ==
  (ValidateCalled /\ arg_strict /\ CoreRule(TRUE) /\ ArgEsd # <<>>)
  => outcome = (IF ArgEsd \in LevelSet(6) \/ SecondIsExperimental
                THEN "True" ELSE "False")

\* C5: experimental bypass: with valid core tokens, an ESD subtopic whose
\* second segment is 'experimental' is valid in strict and in lenient mode,
\* whatever its other segments and the level-6 set are.
C5_ExperimentalBypass ==
  (ValidateCalled /\ CoreRule(arg_strict) /\ SecondIsExperimental)
  => outcome = "True"

C5_Witness ==
  /\ ValidateCalled /\ arg_strict /\ CoreRule(TRUE) /\ SecondIsExperimental
  /\ Len(ArgEsdTokens) = 3 /\ ArgEsdTokens[3] = <<"+">>
  /\ ArgEsd \notin LevelSet(6)
  /\ outcome = "True"

\* C6: core-token rule: without an ESD subtopic, validate is true iff
\* every core token is empty, or at position 3 in lenient mode, or a
\* wildcard in lenient mode, or a member of its own level's set.
C6_CoreTokenRule ==
  (ValidateCalled /\ ArgEsd = <<>>)
  => outcome = (IF CoreRule(arg_strict) THEN "True" ELSE "False")

C6_Witness ==
  /\ ValidateCalled /\ ~arg_strict /\ ArgEsd = <<>> /\ Len(ArgCore) = 6
  /\ PlainSeg(ArgCore[4]) /\ ArgCore[4] \notin LevelSet(3)
  /\ \A n \in {1, 2, 3, 5, 6} : ArgCore[n] \in LevelSet(n - 1)
  /\ outcome = "True"

\* the candidate cand, of literal and '+' segments, fits the entry segment
\* by segment
SegmentwiseFit(cand, entry) ==
  LET c == split(cand, "/")
      e == split(entry, "/")
  IN  /\ Len(c) = Len(e)
      /\ \A k \in 1..Len(c) : c[k] = <<"+">> \/ c[k] = e[k]

\* C7: lenient '+' in the ESD subtopic: a candidate of literal and '+'
\* segments (no 'experimental' second segment) is valid iff some level-6
\* entry has as many segments and equals it at every literal position.
C7_LenientPlus ==
  (ValidateCalled /\ ~arg_strict /\ CoreRule(FALSE) /\ ArgEsd # <<>>
     /\ ~SecondIsExperimental
     /\ \A k \in 1..Len(ArgEsdTokens) :
           ArgEsdTokens[k] = <<"+">> \/ PlainSeg(ArgEsdTokens[k]))
  => outcome = (IF \E e \in LevelSet(6) : SegmentwiseFit(ArgEsd, e)
                THEN "True" ELSE "False")

\* entry is the path P or extends it by further segments
EqualsOrExtends(entry, P) ==
  \/ entry = P
  \/ /\ Len(entry) > Len(P)
     /\ SubSeq(entry, 1, Len(P) + 1) = P \o <<"/">>

\* C8: lenient '#' in the ESD subtopic: a candidate P/# with P a literal
\* path is valid iff some level-6 entry equals P or extends P; '#' alone
\* is valid iff the level-6 set is non-empty.
C8_LenientHash ==
  (ValidateCalled /\ ~arg_strict /\ CoreRule(FALSE) /\ ArgEsd # <<>>
     /\ ~SecondIsExperimental
     /\ ArgEsdTokens[Len(ArgEsdTokens)] = <<"#">>
     /\ \A k \in 1..(Len(ArgEsdTokens) - 1) : PlainSeg(ArgEsdTokens[k]))
  => outcome =
       (IF Len(ArgEsdTokens) = 1
        THEN (IF LevelSet(6) # {} THEN "True" ELSE "False")
        ELSE (IF \E e \in LevelSet(6) :
                    EqualsOrExtends(e, join(SubSeq(ArgEsdTokens, 1,
                                                   Len(ArgEsdTokens) - 1), "/"))
              THEN "True" ELSE "False"))

LastSegment(path) == LET p == split(path, "/") IN p[Len(p)]

\* C9: last-segment exactness: a candidate that does not end in '#' and
\* whose last segment is a literal L is accepted, in either mode, only when
\* some level-6 entry has L as its last segment.
C9_LastSegmentExact ==
  (ValidateCalled /\ CoreRule(arg_strict) /\ ArgEsd # <<>>
     /\ ~SecondIsExperimental
     /\ ~endswith(ArgEsd, "#")
     /\ LastSegment(ArgEsd) # <<"+">>
     /\ outcome = "True")
  => \E e \in LevelSet(6) : LastSegment(e) = LastSegment(ArgEsd)

\* C10: validate_baseline is false for every string that contains '.', or
\* '#' anywhere but as its last character, or an uppercase character, or a
\* non-ASCII character.
C10_BaselineRejects ==
  (op = "validate_baseline" /\ BreaksBaseline(arg_topic)) => outcome = "False"

C10_Witness ==
  /\ op = "validate_baseline"
  /\ Len(arg_topic) = 3
  /\ arg_topic[1] \in LowerAscii /\ arg_topic[2] = "#" /\ arg_topic[3] = "#"
  /\ outcome = "False"

-----------------------------------------------------------------------------
(* list_children                                                           *)

ListCalled == op = "list_children" /\ arg_topic \notin {None, <<"/">>}

\* the first segments of the level-6 entries
EsdFirstSegments == {split(e, "/")[1] : e \in LevelSet(6)}

\* what list_children owes when the children are the set expected
Lists(expected) ==
  IF expected = {} THEN outcome = "ValueError"
  ELSE outcome = "returned" /\ ToSet(returned) = expected

\* C11: list_children at core depth: "/" gives the level-0 set without
\* validation; a strictly valid topic of n < 6 segments gives the set of
\* level n; one of exactly 6 segments gives the distinct first segments of
\* the level-6 entries (an empty set of children makes the call raise).
C11_CoreDepthChildren ==
  /\ (op = "list_children" /\ arg_topic = <<"/">>)
     => outcome = "returned" /\ ToSet(returned) = LevelSet(0)
  /\ (ListCalled /\ CoreRule(TRUE) /\ Len(ArgTokens) < 6)
     => Lists(LevelSet(Len(ArgTokens)))
  /\ (ListCalled /\ CoreRule(TRUE) /\ Len(ArgTokens) = 6)
     => Lists(EsdFirstSegments)

C11_Witness ==
  /\ ListCalled /\ CoreRule(TRUE) /\ Len(ArgTokens) = 6
  /\ outcome = "returned"
  /\ Cardinality(LevelSet(6)) > Cardinality(ToSet(returned))

\* the entry has the path S as a proper segment-wise prefix
ProperlyExtends(entry, S) == startswith(entry, S \o <<"/">>)

\* the segment of the entry that follows its leading S
SegmentAfter(entry, S) == split(SubSeq(entry, Len(S) + 2, Len(entry)), "/")[1]

\* C12: list_children at ESD depth: for a strictly valid topic with ESD
\* subtopic S the children are the segments that follow S in the level-6
\* entries that have S as a proper segment-wise prefix, and nothing else.
C12_EsdDepthChildren ==
  (ListCalled /\ CoreRule(TRUE) /\ Len(ArgEsdTokens) >= 2
     /\ (ArgEsd \in LevelSet(6) \/ SecondIsExperimental))
  => Lists({SegmentAfter(e, ArgEsd) : e \in {x \in LevelSet(6) : ProperlyExtends(x, ArgEsd)}})

\* C13: list_children never returns an empty sequence, the root topic
\* included; it raises on None and on a topic that fails strict validation.
C13_NeverEmpty ==
  op = "list_children" =>
    /\ outcome = "returned" => Len(returned) > 0
    /\ arg_topic = None => outcome # "returned"
    /\ (arg_topic \notin {None, <<"/">>} /\ validate(topics, arg_topic, TRUE) # "True")
       => outcome # "returned"

\* C18: every string that list_children returns is non-empty, has no '/',
\* and is a token of a level 0-5 set or a whole segment of a level-6 entry.
C18_ChildrenAreTokens ==
  (op = "list_children" /\ outcome = "returned") =>
    \A n \in 1..Len(returned) :
       /\ returned[n] # <<>>
       /\ ~Contains(returned[n], "/")
       /\ \/ \E i \in 0..5 : returned[n] \in LevelSet(i)
          \/ \E e \in LevelSet(6) : returned[n] \in ToSet(split(e, "/"))

-----------------------------------------------------------------------------
(* CentreId                                                                *)

CentreCalled == op = "centre_id" /\ Contains(arg_topic, "-")

\* the part of the centre-id before its first '-'
TldPart == SubSeq(arg_topic, 1, find(arg_topic, "-"))

\* the TLD reference list of the tables the CentreId was constructed with,
\* without its header row
TldList ==
  LET rows == IF arg_tables.given THEN arg_tables.tlds ELSE DefaultTldRows
  IN  {rows[n] : n \in 2..Len(rows)}

\* C14: CentreId(c).validate(), c with a '-', is true iff c passes the
\* baseline, the upper-cased part before the first '-' is in the TLD list
\* (header row excluded), and c is not in the level-3 token set of the
\* topic hierarchy that validate loads; otherwise it is false.
C14_CentreIdThreeChecks ==
  CentreCalled =>
    outcome = (IF /\ validate_baseline(arg_topic)
                  /\ str_upper(TldPart) \in TldList
                  /\ arg_topic \notin ToSet(loaded[4])
               THEN "True" ELSE "False")

C14_Witness ==
  /\ CentreCalled /\ outcome = "True"
  /\ Contains(SubSeq(arg_topic, Len(TldPart) + 2, Len(arg_topic)), "-")

\* C15: a CentreId constructed with a tables location runs all its checks
\* against that location: it is valid only if the centre-id is not in the
\* level-3 table of the location the TLD list was read from.
C15_OneTableSource ==
  (CentreCalled /\ arg_tables.given) =>
    outcome = (IF /\ validate_baseline(arg_topic)
                  /\ str_upper(TldPart) \in TldList
                  /\ arg_topic \notin ToSet(arg_tables.levels[4])
               THEN "True" ELSE "False")

NextCentre == CallCentreIdValidate \/ Return

\* the default tables with callers of CentreId
SpecCentre == Init /\ [][NextCentre]_vars

-----------------------------------------------------------------------------
(* Sessions of several calls                                               *)

\* C16: immutable snapshot: each of the seven level token sets stays equal
\* to what was loaded, after any calls of validate and list_children and
\* after any modification by a caller of a value that list_children returned.
C16_SnapshotImmutable == topics = loaded

\* the tokens of the tables are made of lowercase letters, digits, '-' and
\* '_', with '/' between the segments of the level-6 entries
TablesPlain ==
  /\ \A i \in 0..5 : \A t \in LevelSet(i) : PlainSeg(t)
  /\ \A e \in LevelSet(6) : \A seg \in ToSet(split(e, "/")) : PlainSeg(seg)

\* C17: lenient mode is never stricter than strict mode: with plain
\* tables, a topic that validate accepts in strict mode is accepted in
\* lenient mode.
C17_LenientNotStricter ==
  (op = "revalidate" /\ TablesPlain /\ prev_outcome = "True") => outcome = "True"

C17_Witness ==
  /\ op = "revalidate" /\ TablesPlain /\ prev_outcome = "True" /\ outcome = "True"
  /\ Len(ArgEsdTokens) = 3 /\ ArgEsd \in LevelSet(6)

NextModes == CallValidate \/ RevalidateLenient \/ Return

\* the engine with callers that validate in strict, then in lenient mode
SpecModes == Init /\ [][NextModes]_vars

NextSession == CallValidate \/ CallListChildren \/ CallerModifiesReturned \/ Return

\* the engine with callers of validate and list_children that keep and
\* modify the lists they are handed
SpecSession == Init /\ [][NextSession]_vars

NextList == CallListChildren \/ Return

\* the engine with callers of list_children
SpecList == Init /\ [][NextList]_vars

====
